---- MODULE Spec2Model ----
(***************************************************************************)
(* go-where: the user presence / proximity engine and the friend graph.    *)
(*                                                                         *)
(* The durable store is the MongoDB "users" collection, the ephemeral      *)
(* store is Redis: string keys "user:<public id>" holding the JSON of a    *)
(* models.User, hashes "<poi id>" holding the JSON of a models.POI, and    *)
(* the geospatial sets "users:geo" and "pois:geo".                         *)
(*                                                                         *)
(* Store operations are operators over explicit store values; a handler is *)
(* one action that threads the stores through every call it makes.         *)
(***************************************************************************)
EXTENDS Integers, Sequences, FiniteSets, TLC

VARIABLES
    db,         \* MongoDB users collection: public_id -> document
    kv,         \* Redis string keys "user:<id>": id -> entry
    hash,       \* Redis hashes of the POIs: poi id -> entry
    geo,        \* Redis geospatial sets: key -> member -> location
    last,       \* the latest completed call: its inputs, its result, what it touched
    requested,  \* ghost: <<A, B>> such that SendFriendRequest A -> B succeeded and
                \* AcceptFriendRequest by B of A has not succeeded since
    calls,      \* the runs of UserLocationPing in flight: where each stands
    clock       \* minutes left of the TTL of "users:geo"; ghost: minutes since
                \* each user's last successful location update

vars == <<db, kv, hash, geo, last, requested, calls, clock>>

(***************************************************************************)
(* Identifiers and inputs.                                                 *)
(***************************************************************************)
\* Public ids (uuid strings) of the users the durable store may hold.
AllUsers == {"a", "b", "c"}
\* A well-formed public id that no document carries.
Unknown == "zz"
IDs == AllUsers \cup {Unknown}

\* The ObjectID hex string MongoDB gave a user's document: never a uuid.
ObjectIDHex(u) == "oid-" \o u

\* (lat, lon) pairs requests carry, in whole degrees: two valid points
\* and two that fail the range check (lat > 90, lon < -180).
ValidPoints == { [lat |-> 0, lon |-> 0], [lat |-> 1, lon |-> 0] }
InvalidPoints == { [lat |-> 91, lon |-> 0], [lat |-> 0, lon |-> -181] }
Points == ValidPoints \cup InvalidPoints

\* radius values requests carry (the handlers document them as meters).
Radii == {0, 3000, 111000}

nil == "nil"

(***************************************************************************)
(* models: GeoPoint, User, POI and their BSON / JSON forms.                *)
(***************************************************************************)
GeoPoint(lon, lat) == [Type |-> "Point", Coordinates |-> <<lon, lat>>]
ZeroGeoPoint == [Type |-> "", Coordinates |-> <<>>]

\* models.User{}
ZeroUser ==
    [ID |-> "", PublicID |-> "", Username |-> "", LastLocation |-> ZeroGeoPoint,
     Friends |-> {}, PendingFriendRequests |-> {}, PendingFriendRequestsSent |-> {}]

\* bson decoding of a users document into models.User: by the struct's bson
\* tags. A document key with no tag of that name ("lastLocation") is dropped.
Decode(doc) ==
    [ID |-> doc.oid,
     PublicID |-> doc.public_id,
     Username |-> doc.username,
     LastLocation |-> doc.last_location,
     Friends |-> doc.friends,
     PendingFriendRequests |-> doc.pending_friend_requests,
     PendingFriendRequestsSent |-> doc.pending_friend_requests_sent]

\* json.Marshal(models.User): by the struct's json tags.
Marshal(user) ==
    [id |-> user.ID,
     public_id |-> user.PublicID,
     username |-> user.Username,
     last_location |-> [type |-> user.LastLocation.Type,
                        coordinates |-> user.LastLocation.Coordinates],
     friends |-> user.Friends,
     pending_friend_requests |-> user.PendingFriendRequests,
     pending_friend_requests_sent |-> user.PendingFriendRequestsSent]

\* json.Unmarshal into models.User.
Unmarshal(js) ==
    [ID |-> js.id,
     PublicID |-> js.public_id,
     Username |-> js.username,
     LastLocation |-> [Type |-> js.last_location.type,
                       Coordinates |-> js.last_location.coordinates],
     Friends |-> js.friends,
     PendingFriendRequests |-> js.pending_friend_requests,
     PendingFriendRequestsSent |-> js.pending_friend_requests_sent]

\* The document Register inserts for a user: LastLocation {Point, [0, 0]}
\* under the bson key last_location, the three lists empty.
RegisteredDoc(u) ==
    [oid |-> ObjectIDHex(u),
     public_id |-> u,
     username |-> "name-" \o u,
     last_location |-> GeoPoint(0, 0),
     lastLocation |-> ZeroGeoPoint,
     friends |-> {},
     pending_friend_requests |-> {},
     pending_friend_requests_sent |-> {}]

(***************************************************************************)
(* errors: the APIError values and the kind a response carries.            *)
(***************************************************************************)
ErrInvalidInput == "INVALID_INPUT"
ErrUnauthorized == "UNAUTHORIZED"
ErrNotFound == "NOT_FOUND"
ErrInternal == "INTERNAL_SERVER_ERROR"
ErrConflict == "CONFLICT"
APIErrors == {ErrInvalidInput, ErrUnauthorized, ErrNotFound, ErrInternal, ErrConflict}

\* errors.Wrap: an *APIError is kept, anything else becomes a new APIError
\* with the given code.
Wrap(err, code) == IF err \in APIErrors THEN err ELSE code

\* middleware.WriteError: the code of the response. "OK" when the handler
\* wrote its success body instead.
WriteError(err) == IF err = nil THEN "OK" ELSE Wrap(err, "UNKNOWN_ERROR")

(***************************************************************************)
(* Redis string keys.                                                      *)
(***************************************************************************)
TTL24h == "24h"
TTL5m == "5m"
NoEntry == [live |-> FALSE, val |-> Marshal(ZeroUser), ttl |-> "none"]

\* A value of a key "user:<id>" that is not the JSON of a user.
Garbage == [Marshal(ZeroUser) EXCEPT !.public_id = "<not json>"]

\* json.Unmarshal([]byte(userJSON), &user) returns an error.
Undecodable(js) == js = Garbage

\* Mutation: SET stores nothing.
RedisSet_Noop(k, id, val, ttl) == k

\* redisClient.Set(ctx, "user:"+id, val, ttl)
RedisSet(k, id, val, ttl) == [k EXCEPT ![id] = [live |-> TRUE, val |-> val, ttl |-> ttl]]

\* redisClient.Get found the key and json.Unmarshal accepted its value.
CacheHit(k, userID) == k[userID].live /\ ~Undecodable(k[userID].val)

\* The documents of the users collection FindOne returns during a call in
\* which MongoDB fails on the users in bad.
Readable(d, bad) == [u \in DOMAIN d \ bad |-> d[u]]

(***************************************************************************)
(* UserService.GetUser: cache-aside read. Returns the user, the error and  *)
(* the Redis keys as the call leaves them.                                 *)
(***************************************************************************)
GetUser(d, k, userID) ==
    IF CacheHit(k, userID)
    THEN [user |-> Unmarshal(k[userID].val), err |-> nil, kv |-> k]
    ELSE IF userID \notin DOMAIN d
         THEN [user |-> ZeroUser, err |-> "mongo: no documents in result", kv |-> k]
         ELSE LET user == Decode(d[userID])
              IN [user |-> user, err |-> nil,
                  kv |-> RedisSet(k, userID, Marshal(user), TTL24h)]

(***************************************************************************)
(* MongoDB updates of the users collection.  f names the store call that   *)
(* fails in this run of a handler ("none": no call fails).                  *)
(***************************************************************************)
Faults == {"none", "update1", "update2", "find", "set", "geoadd"}

\* collection.UpdateOne(ctx, {"public_id": userID}, {"$set": {"lastLocation": Point[lon, lat]}})
SetLastLocation(d, userID, lon, lat) ==
    IF userID \in DOMAIN d
    THEN [d EXCEPT ![userID].lastLocation = GeoPoint(lon, lat)]
    ELSE d

\* primitive.ObjectIDFromHex succeeds on the hex strings MongoDB issued.
IsObjectIDHex(s) == \E u \in AllUsers : s = ObjectIDHex(u)

\* The public ids of the documents whose _id is oid (one or none).
ByObjectID(d, oid) == {u \in DOMAIN d : d[u].oid = oid}

\* Mutation: the update also pulls the sender from the recipient's friends.
AddPending_Unfriends(d, oid, id) ==
    [u \in DOMAIN d |->
        IF d[u].oid = oid
        THEN [d[u] EXCEPT !.pending_friend_requests = @ \cup {id}, !.friends = @ \ {id}]
        ELSE d[u]]

\* Mutation: the recipient's document is left as it was.
AddPending_Noop(d, oid, id) == d

\* UpdateOne({"_id": oid}, {"$addToSet": {"pending_friend_requests": id}})
AddPending(d, oid, id) ==
    [u \in DOMAIN d |->
        IF d[u].oid = oid
        THEN [d[u] EXCEPT !.pending_friend_requests = @ \cup {id}]
        ELSE d[u]]

\* UpdateOne({"_id": oid}, {"$addToSet": {"pending_friend_requests_sent": id}})
AddPendingSent(d, oid, id) ==
    [u \in DOMAIN d |->
        IF d[u].oid = oid
        THEN [d[u] EXCEPT !.pending_friend_requests_sent = @ \cup {id}]
        ELSE d[u]]

\* Mutation: the update is not idempotent, a second application takes the
\* friend out again.
AcceptUpdateUser_Toggles(d, oid, id) ==
    [u \in DOMAIN d |->
        IF d[u].oid = oid
        THEN [d[u] EXCEPT !.friends = IF id \in @ THEN @ \ {id} ELSE @ \cup {id},
                          !.pending_friend_requests = @ \ {id}]
        ELSE d[u]]

\* UpdateOne({"_id": oid}, {"$addToSet": {"friends": id},
\*                          "$pull": {"pending_friend_requests": id}})
AcceptUpdateUser(d, oid, id) ==
    [u \in DOMAIN d |->
        IF d[u].oid = oid
        THEN [d[u] EXCEPT !.friends = @ \cup {id},
                          !.pending_friend_requests = @ \ {id}]
        ELSE d[u]]

\* Mutation: the sender's document keeps the request in its sent list.
AcceptUpdateSender_KeepsSent(d, oid, id) ==
    [u \in DOMAIN d |->
        IF d[u].oid = oid
        THEN [d[u] EXCEPT !.friends = @ \cup {id}]
        ELSE d[u]]

\* UpdateOne({"_id": oid}, {"$addToSet": {"friends": id},
\*                          "$pull": {"pending_friend_requests_sent": id}})
AcceptUpdateSender(d, oid, id) ==
    [u \in DOMAIN d |->
        IF d[u].oid = oid
        THEN [d[u] EXCEPT !.friends = @ \cup {id},
                          !.pending_friend_requests_sent = @ \ {id}]
        ELSE d[u]]

(***************************************************************************)
(* Redis geospatial sets.  Coordinates are whole degrees; the store's      *)
(* distance is modelled as 111 km per degree along each axis.              *)
(***************************************************************************)
UsersGeo == "users:geo"
PoisGeo == "pois:geo"

Abs(x) == IF x < 0 THEN -x ELSE x

\* The distance GEORADIUS reports with Unit "km".
DistKm(lon1, lat1, lon2, lat2) == 111 * (Abs(lon1 - lon2) + Abs(lat1 - lat2))

\* Mutation: a member already in the set keeps its coordinates.
GeoAdd_KeepsMember(g, key, name, lon, lat) ==
    IF \E m \in g[key] : m.Name = name THEN g
    ELSE [g EXCEPT ![key] = @ \cup {[Name |-> name, Longitude |-> lon, Latitude |-> lat]}]

\* redisClient.GeoAdd(ctx, key, &redis.GeoLocation{Name, Longitude, Latitude})
GeoAdd(g, key, name, lon, lat) ==
    [g EXCEPT ![key] = {m \in @ : m.Name # name}
                         \cup {[Name |-> name, Longitude |-> lon, Latitude |-> lat]}]

\* Every order in which the store may list the members of a set.
Orders(S) ==
    {s \in [1..Cardinality(S) -> S] : \A i, j \in 1..Cardinality(S) : i # j => s[i] # s[j]}

\* Insert r into a list sorted by Dist, after the entries not farther than r.
RECURSIVE InsertByDist(_, _)
InsertByDist(r, sorted) ==
    IF sorted = <<>> THEN <<r>>
    ELSE IF Head(sorted).Dist <= r.Dist
         THEN <<Head(sorted)>> \o InsertByDist(r, Tail(sorted))
         ELSE <<r>> \o sorted

RECURSIVE SortAsc(_)
SortAsc(s) == IF s = <<>> THEN <<>> ELSE InsertByDist(s[Len(s)], SortAsc(SubSeq(s, 1, Len(s) - 1)))

\* redisClient.GeoRadius(ctx, key, lon, lat, &redis.GeoRadiusQuery{Radius: radius,
\* Unit: "km", WithCoord, WithDist, Sort: sort, Count: count}): the members within
\* radius km of (lon, lat) with their coordinates and distance in km. Without
\* Sort the reply keeps the store's own order (order); count = 0 is no limit.
GeoRadius(g, key, lon, lat, radius, sort, count, order) ==
    IF radius < 0
    THEN [err |-> "ERR radius cannot be negative", results |-> <<>>]
    ELSE LET Loc(n) == CHOOSE m \in g[key] : m.Name = n
             Hit(n) == [Name |-> n, Longitude |-> Loc(n).Longitude,
                        Latitude |-> Loc(n).Latitude,
                        Dist |-> DistKm(Loc(n).Longitude, Loc(n).Latitude, lon, lat)]
             within == SelectSeq(order, LAMBDA n : Hit(n).Dist <= radius)
             listed == [i \in 1..Len(within) |-> Hit(within[i])]
             sorted == IF sort = "ASC" THEN SortAsc(listed) ELSE listed
         IN [err |-> nil,
             results |-> IF count > 0 /\ Len(sorted) > count
                         THEN SubSeq(sorted, 1, count) ELSE sorted]

Names(g, key) == {m.Name : m \in g[key]}

(***************************************************************************)
(* UserService.UserLocationPing                                            *)
(***************************************************************************)
\* Mutation: the coordinates are not validated.
InvalidCoordinates_Never(lat, lon) == FALSE

\* lat < -90 || lat > 90 || lon < -180 || lon > 180
InvalidCoordinates(lat, lon) == lat < -90 \/ lat > 90 \/ lon < -180 \/ lon > 180

\* Mutation: the cached payload keeps the location GetUser returned.
MergeLocation_Dropped(user, lon, lat) == user

\* user.LastLocation = models.GeoPoint{Type: "Point", Coordinates: []float64{lon, lat}}
MergeLocation(user, lon, lat) == [user EXCEPT !.LastLocation = GeoPoint(lon, lat)]

UserLocationPing(d, k, g, userID, lat, lon, f) ==
    LET unchanged == [err |-> nil, db |-> d, kv |-> k, geo |-> g] IN
    IF userID = "" THEN [unchanged EXCEPT !.err = ErrUnauthorized]
    ELSE IF InvalidCoordinates(lat, lon)
    THEN [unchanged EXCEPT !.err = "invalid coordinates"]
    ELSE LET exists == GetUser(d, k, userID) IN
    IF exists.err # nil
    THEN [unchanged EXCEPT !.err = "user not found", !.kv = exists.kv]
    ELSE IF f = "update1"
    THEN [unchanged EXCEPT !.err = "mongo: update failed", !.kv = exists.kv]
    ELSE LET d1 == SetLastLocation(d, userID, lon, lat)
             got == GetUser(d1, exists.kv, userID)
         IN
    IF got.err # nil
    THEN [err |-> got.err, db |-> d1, kv |-> got.kv, geo |-> g]
    ELSE LET user == MergeLocation(got.user, lon, lat) IN
    IF f = "set"
    THEN [err |-> "redis: set failed", db |-> d1, kv |-> got.kv, geo |-> g]
    ELSE LET k2 == RedisSet(got.kv, user.PublicID, Marshal(user), TTL5m) IN
    IF f = "geoadd"
    THEN [err |-> "redis: geoadd failed", db |-> d1, kv |-> k2, geo |-> g]
    ELSE [err |-> nil, db |-> d1, kv |-> k2,
          geo |-> GeoAdd(g, UsersGeo, user.PublicID, lon, lat)]

(***************************************************************************)
(* UserService.GetNearbyUsers and UserService.GetNearbyFriends             *)
(***************************************************************************)
\* Mutation: the caller's own entry is not skipped.
IsSelf_Never(name, userID) == FALSE

\* geoResult.Name == userID
IsSelf(name, userID) == name = userID

\* Mutation: every hit passes for a friend.
IsFriend_Always(user, name) == TRUE

\* for _, friendID := range user.Friends { if geoResult.Name == friendID
IsFriend(user, name) == name \in user.Friends

NearbyUsers(userData, geoResult) ==
    [Username |-> userData.Username,
     UserID |-> userData.PublicID,
     Lat |-> geoResult.Latitude,
     Lon |-> geoResult.Longitude,
     Distance |-> geoResult.Dist]

\* Mutation: the error of GetUser is not looked at.
Unresolved_Never(err) == FALSE

\* if err != nil { log.Printf("Failed to get user ..."); continue }
Unresolved(err) == err # nil

\* One pass of the loop of GetNearbyUsers: what it appends and the Redis
\* keys as it leaves them.
NearbyUsersHit(d, k, geoResult, userID) ==
    IF IsSelf(geoResult.Name, userID) THEN [users |-> <<>>, kv |-> k]
    ELSE LET got == GetUser(d, k, geoResult.Name) IN
         IF Unresolved(got.err)
         THEN [users |-> <<>>, kv |-> got.kv]
         ELSE [users |-> <<NearbyUsers(got.user, geoResult)>>, kv |-> got.kv]

\* The loop of GetNearbyUsers over the geo results: the passes in the order
\* of the reply, each starting from the Redis keys the one before left, their
\* entries appended in that order.  The list is walked by halves, which
\* keeps the evaluation shallow.
RECURSIVE NearbyUsersLoop(_, _, _, _)
NearbyUsersLoop(d, k, geoResults, userID) ==
    IF geoResults = <<>> THEN [users |-> <<>>, kv |-> k]
    ELSE IF Len(geoResults) = 1
    THEN NearbyUsersHit(d, k, Head(geoResults), userID)
    ELSE LET half == Len(geoResults) \div 2
             first == NearbyUsersLoop(d, k, SubSeq(geoResults, 1, half), userID)
             second == NearbyUsersLoop(d, first.kv,
                                       SubSeq(geoResults, half + 1, Len(geoResults)), userID)
         IN [users |-> first.users \o second.users, kv |-> second.kv]

GetNearbyUsers(d, k, g, userID, lat, lon, radius, order) ==
    IF userID = "" THEN [err |-> ErrUnauthorized, users |-> <<>>, kv |-> k]
    ELSE IF InvalidCoordinates(lat, lon)
    THEN [err |-> ErrInvalidInput, users |-> <<>>, kv |-> k]
    ELSE LET q == GeoRadius(g, UsersGeo, lon, lat, radius, "", 0, order) IN
    IF q.err # nil THEN [err |-> q.err, users |-> <<>>, kv |-> k]
    ELSE LET loop == NearbyUsersLoop(d, k, q.results, userID)
         IN [err |-> nil, users |-> loop.users, kv |-> loop.kv]

\* One pass of the loop of GetNearbyFriends.
NearbyFriendsHit(d, k, geoResult, userID, user) ==
    IF IsSelf(geoResult.Name, userID) \/ ~IsFriend(user, geoResult.Name)
    THEN [users |-> <<>>, kv |-> k]
    ELSE LET got == GetUser(d, k, geoResult.Name) IN
         IF Unresolved(got.err)
         THEN [users |-> <<>>, kv |-> got.kv]
         ELSE [users |-> <<NearbyUsers(got.user, geoResult)>>, kv |-> got.kv]

\* The loop of GetNearbyFriends over the geo results, walked as NearbyUsersLoop.
RECURSIVE NearbyFriendsLoop(_, _, _, _, _)
NearbyFriendsLoop(d, k, geoResults, userID, user) ==
    IF geoResults = <<>> THEN [users |-> <<>>, kv |-> k]
    ELSE IF Len(geoResults) = 1
    THEN NearbyFriendsHit(d, k, Head(geoResults), userID, user)
    ELSE LET half == Len(geoResults) \div 2
             first == NearbyFriendsLoop(d, k, SubSeq(geoResults, 1, half), userID, user)
             second == NearbyFriendsLoop(d, first.kv,
                                         SubSeq(geoResults, half + 1, Len(geoResults)),
                                         userID, user)
         IN [users |-> first.users \o second.users, kv |-> second.kv]

\* Mutation: the caller is read through GetUser, which prefers the cache.
FindOneUser_Cached(d, k, userID) == GetUser(d, k, userID).user

\* s.collection.FindOne(ctx, bson.M{"public_id": userID}).Decode(&user)
FindOneUser(d, k, userID) == Decode(d[userID])

GetNearbyFriends(d, k, g, userID, lat, lon, radius, order) ==
    LET none == [err |-> nil, users |-> <<>>, kv |-> k, friends |-> {}] IN
    IF userID = "" THEN [none EXCEPT !.err = ErrUnauthorized]
    ELSE IF InvalidCoordinates(lat, lon) THEN [none EXCEPT !.err = ErrInvalidInput]
    ELSE IF userID \notin DOMAIN d THEN [none EXCEPT !.err = "user not found"]
    ELSE LET user == FindOneUser(d, k, userID)
             q == GeoRadius(g, UsersGeo, lon, lat, radius, "", 0, order)
         IN
    IF q.err # nil
    THEN [none EXCEPT !.err = "failed to get nearby users", !.friends = user.Friends]
    ELSE LET loop == NearbyFriendsLoop(d, k, q.results, userID, user)
         IN [err |-> nil, users |-> loop.users, kv |-> loop.kv, friends |-> user.Friends]

(***************************************************************************)
(* UserService.SendFriendRequest and UserService.AcceptFriendRequest       *)
(***************************************************************************)
\* for _, friendID := range recipient.Friends { if friendID == user.ID
AlreadyFriends(recipient, user) == user.ID \in recipient.Friends

\* for _, pendingID := range recipient.PendingFriendRequests { if pendingID == user.ID
AlreadyPending(recipient, user) == user.ID \in recipient.PendingFriendRequests

SendFriendRequest(d, k, userID, recipientID, f) ==
    LET unchanged == [err |-> nil, db |-> d, kv |-> k] IN
    IF userID = "" THEN [unchanged EXCEPT !.err = ErrUnauthorized]
    ELSE IF userID = recipientID THEN [unchanged EXCEPT !.err = ErrInvalidInput]
    ELSE LET s == GetUser(d, k, userID) IN
    IF s.err # nil THEN [unchanged EXCEPT !.err = "Sender not found", !.kv = s.kv]
    ELSE LET r == GetUser(d, s.kv, recipientID) IN
    IF r.err # nil THEN [unchanged EXCEPT !.err = "Recipient not found", !.kv = r.kv]
    ELSE LET user == s.user
             recipient == r.user
             read == [unchanged EXCEPT !.kv = r.kv]
         IN
    IF AlreadyFriends(recipient, user) THEN [read EXCEPT !.err = "Already friends"]
    ELSE IF AlreadyPending(recipient, user)
    THEN [read EXCEPT !.err = "Already pending friend request"]
    ELSE IF ~IsObjectIDHex(user.ID) THEN [read EXCEPT !.err = "Invalid user ID"]
    ELSE IF ~IsObjectIDHex(recipient.ID) THEN [read EXCEPT !.err = "Invalid recipient ID"]
    ELSE IF f = "update1" THEN [read EXCEPT !.err = "Failed to send friend request"]
    ELSE LET d1 == AddPending(d, recipient.ID, userID) IN
    IF f = "update2"
    THEN [err |-> "Failed to update sender's pending requests", db |-> d1, kv |-> r.kv]
    ELSE [err |-> nil, db |-> AddPendingSent(d1, user.ID, recipientID), kv |-> r.kv]

\* collection.FindOne({"_id": oid, "pending_friend_requests": {"$in": [senderID]}})
\* finds a document.
HasPendingRequest(d, oid, senderID) ==
    \E u \in ByObjectID(d, oid) : senderID \in d[u].pending_friend_requests

AcceptFriendRequest(d, k, userID, senderID, f) ==
    LET unchanged == [err |-> nil, db |-> d, kv |-> k] IN
    IF userID = "" THEN [unchanged EXCEPT !.err = ErrUnauthorized]
    ELSE IF userID = senderID
    THEN [unchanged EXCEPT !.err = "Cannot accept friend request from self"]
    ELSE LET s == GetUser(d, k, senderID) IN
    IF s.err # nil THEN [unchanged EXCEPT !.err = "Sender not found", !.kv = s.kv]
    ELSE LET u == GetUser(d, s.kv, userID) IN
    IF u.err # nil THEN [unchanged EXCEPT !.err = "User not found", !.kv = u.kv]
    ELSE LET sender == s.user
             user == u.user
             read == [unchanged EXCEPT !.kv = u.kv]
         IN
    IF ~IsObjectIDHex(user.ID) THEN [read EXCEPT !.err = "Invalid user ID"]
    ELSE IF ~IsObjectIDHex(sender.ID) THEN [read EXCEPT !.err = "Invalid sender ID"]
    ELSE IF f = "find" THEN [read EXCEPT !.err = "Failed to check pending friend request"]
    ELSE IF ~HasPendingRequest(d, user.ID, senderID)
    THEN [read EXCEPT !.err = "No pending friend request"]
    ELSE IF f = "update1" THEN [read EXCEPT !.err = "Failed to accept friend request"]
    ELSE LET d1 == AcceptUpdateUser(d, user.ID, senderID) IN
    IF f = "update2"
    THEN [err |-> "Failed to update sender's friends list", db |-> d1, kv |-> u.kv]
    ELSE [err |-> nil, db |-> AcceptUpdateSender(d1, sender.ID, userID), kv |-> u.kv]

(***************************************************************************)
(* GeoService: the POI collection, its seeding into Redis, FindNearbyPOIs  *)
(***************************************************************************)
\* The documents of the MongoDB "pois" collection.
poisCollection ==
    [p \in {"p1", "p2", "p3"} |->
        [ID |-> p,
         Name |-> "poi-" \o p,
         Type |-> IF p = "p2" THEN "park" ELSE "cafe",
         Location |-> IF p = "p1" THEN GeoPoint(0, 0)
                      ELSE IF p = "p2" THEN GeoPoint(0, 1)
                      ELSE GeoPoint(100, 0)]]

PoiTypes == {"", "cafe"}

\* json.Marshal(models.POI) and json.Unmarshal into models.POI.
MarshalPOI(poi) ==
    [id |-> poi.ID, name |-> poi.Name, type |-> poi.Type,
     location |-> [type |-> poi.Location.Type, coordinates |-> poi.Location.Coordinates]]

UnmarshalPOI(js) ==
    [ID |-> js.id, Name |-> js.name, Type |-> js.type,
     Location |-> [Type |-> js.location.type, Coordinates |-> js.location.coordinates]]

NoHash == [live |-> FALSE, data |-> MarshalPOI([ID |-> "", Name |-> "", Type |-> "",
                                                Location |-> ZeroGeoPoint])]

\* Mutation: only the POI keys are removed.
FlushDB_PoisOnly(k, h, g) ==
    [kv |-> k,
     hash |-> [p \in DOMAIN poisCollection |-> NoHash],
     geo |-> [g EXCEPT ![PoisGeo] = {}]]

\* redisClient.FlushDB: every key of the Redis database is removed.
FlushDB(k, h, g) ==
    [kv |-> [i \in IDs |-> NoEntry],
     hash |-> [p \in DOMAIN poisCollection |-> NoHash],
     geo |-> [key \in {UsersGeo, PoisGeo} |-> {}]]

\* The store calls of one run of seedPOIsToRedis that fail: FlushDB, the Find
\* on the pois collection, the HSet of some POIs, the GeoAdd of some POIs.
NoFailure == [flush |-> FALSE, find |-> FALSE, hset |-> {}, geoadd |-> {}]

\* The loop of seedPOIsToRedis: HSet(poi.ID, "data", json) then GeoAdd("pois:geo"),
\* each with "continue" on failure.
RECURSIVE SeedLoop(_, _, _, _)
SeedLoop(h, g, todo, failed) ==
    IF todo = {} THEN [hash |-> h, geo |-> g]
    ELSE LET p == CHOOSE x \in todo : TRUE
             poi == poisCollection[p]
         IN IF p \in failed.hset
            THEN SeedLoop(h, g, todo \ {p}, failed)
            ELSE LET h1 == [h EXCEPT ![p] = [live |-> TRUE, data |-> MarshalPOI(poi)]] IN
                 IF p \in failed.geoadd
                 THEN SeedLoop(h1, g, todo \ {p}, failed)
                 ELSE SeedLoop(h1,
                               GeoAdd(g, PoisGeo, poi.ID, poi.Location.Coordinates[1],
                                      poi.Location.Coordinates[2]),
                               todo \ {p}, failed)

\* seedPOIsToRedis on a Redis database that holds k, h and g.
SeedFrom(k, h, g, failed) ==
    IF failed.flush THEN [kv |-> k, hash |-> h, geo |-> g]
    ELSE LET flushed == FlushDB(k, h, g) IN
         IF failed.find THEN flushed
         ELSE LET seeded == SeedLoop(flushed.hash, flushed.geo, DOMAIN poisCollection, failed)
              IN [kv |-> flushed.kv, hash |-> seeded.hash, geo |-> seeded.geo]

\* seedPOIsToRedis on an empty Redis database, no call failing: the state
\* NewGeoService leaves at the first start.
seedPOIsToRedis ==
    SeedFrom([i \in IDs |-> NoEntry],
             [p \in DOMAIN poisCollection |-> NoHash],
             [key \in {UsersGeo, PoisGeo} |-> {}],
             NoFailure)

\* The POI hashes HGet returns during a call in which Redis fails on the
\* keys in bad.
ReadableHash(h, bad) == [p \in DOMAIN h |-> IF p \in bad THEN NoHash ELSE h[p]]

\* Count: 50 of the GeoRadiusQuery of FindNearbyPOIs.
PoiCount == 50

\* The loop of FindNearbyPOIs over the geo results.
RECURSIVE NearbyPOIsLoop(_, _, _, _, _)
NearbyPOIsLoop(h, geoResults, radius, poiType, results) ==
    IF geoResults = <<>> THEN results
    ELSE LET geoResult == Head(geoResults) IN
         IF ~h[geoResult.Name].live
         THEN NearbyPOIsLoop(h, Tail(geoResults), radius, poiType, results)
         ELSE LET poi == UnmarshalPOI(h[geoResult.Name].data)
                  distance == geoResult.Dist * 1000
              IN IF poiType # "" /\ poi.Type # poiType
                 THEN NearbyPOIsLoop(h, Tail(geoResults), radius, poiType, results)
                 ELSE IF distance <= radius
                 THEN NearbyPOIsLoop(h, Tail(geoResults), radius, poiType,
                                     Append(results, poi))
                 ELSE NearbyPOIsLoop(h, Tail(geoResults), radius, poiType, results)

FindNearbyPOIs(h, g, lat, lon, radius, poiType, order) ==
    LET q == GeoRadius(g, PoisGeo, lon, lat, radius, "ASC", PoiCount, order) IN
    IF q.err # nil THEN [err |-> q.err, pois |-> <<>>]
    ELSE [err |-> nil, pois |-> NearbyPOIsLoop(h, q.results, radius, poiType, <<>>)]

(***************************************************************************)
(* The record of the latest call.                                          *)
(***************************************************************************)
NoPre ==
    [requested |-> FALSE, reverse |-> FALSE, friends |-> FALSE, pendingIn |-> FALSE,
     listed |-> FALSE]
NoAfter == [op |-> "none", caller |-> "", other |-> "", lat |-> 0, lon |-> 0, fresh |-> FALSE]

NoCall ==
    [op |-> "none", caller |-> "", other |-> "", lat |-> 0, lon |-> 0,
     radius |-> 0, echo |-> 0, ptype |-> "", fault |-> "none",
     err |-> nil, code |-> "OK",
     users |-> <<>>, pois |-> <<>>, user |-> ZeroUser, friends |-> {},
     mod |-> {}, pre |-> NoPre, after |-> NoAfter,
     retry |-> FALSE, want |-> <<>>, cached |-> FALSE, failed |-> NoFailure,
     lost |-> {}, ref |-> <<>>]

\* What a call returns when its second durable update failed.
SecondUpdateErrors ==
    {"Failed to update sender's pending requests", "Failed to update sender's friends list"}

\* The latest call was this call, by the same caller about the same other
\* user, and failed at its second durable update.
HalfDone(op, caller, other) ==
    /\ last.op = op
    /\ last.caller = caller
    /\ last.other = other
    /\ last.fault = "update2"
    /\ last.err \in SecondUpdateErrors

\* Which stores a call left different from how it found them.
Modified(d, k, g) ==
    (IF d # db THEN {"db"} ELSE {})
    \cup (IF k # kv THEN {"kv"} ELSE {})
    \cup (IF g # geo THEN {"geo"} ELSE {})

\* What the durable store holds about caller and other before a call.
Pre(caller, other) ==
    [requested |-> <<caller, other>> \in requested,
     reverse |-> <<other, caller>> \in requested,
     friends |-> /\ caller \in DOMAIN db /\ other \in DOMAIN db
                 /\ (other \in db[caller].friends \/ caller \in db[other].friends),
     pendingIn |-> caller \in DOMAIN db /\ other \in db[caller].pending_friend_requests,
     listed |-> /\ other \in DOMAIN db
                /\ caller \in db[other].friends \cup db[other].pending_friend_requests]

\* The pair has no relation at all in the durable store.
NoRelation(x, y) ==
    /\ y \notin db[x].friends \cup db[x].pending_friend_requests
                \cup db[x].pending_friend_requests_sent
    /\ x \notin db[y].friends \cup db[y].pending_friend_requests
                \cup db[y].pending_friend_requests_sent

\* Default radius in meters of the nearby-users and nearby-friends handlers.
DefaultRadius == 3000

\* Mutation: the handler passes a non-positive radius on as it is.
EffectiveRadius_Kept(radius) == radius

\* if radius <= 0 { radius = 3000 }
EffectiveRadius(radius) == IF radius <= 0 THEN DefaultRadius ELSE radius

(***************************************************************************)
(* Actions: one per handler, and the store's own expiry of keys.           *)
(***************************************************************************)
\* ttl := 5 * time.Minute, in the minutes the clock counts.
FiveMinutes == 5

\* No TTL is running on "users:geo"; every user's last successful location
\* update, if any, is five minutes old or older.
StoppedClock(users) == [geo |-> 0, since |-> [u \in users |-> FiveMinutes]]

\* redisClient.Expire(ctx, "users:geo", ttl) at the end of a successful
\* location update of userID.
Renewed(c, userID) == [geo |-> FiveMinutes, since |-> [c.since EXCEPT ![userID] = 0]]

\* The runs of UserLocationPing that may be in flight together.
PingCalls == {1, 2}

IdleCall ==
    [pc |-> "idle", userID |-> "", lat |-> 0, lon |-> 0, user |-> ZeroUser,
     other |-> "", sender |-> ZeroUser, err |-> nil]

\* No run in flight; landed names the run whose UpdateOne, Set and GeoAdd
\* reached the store last (0: none).
NoCalls ==
    [proc |-> [c \in PingCalls |-> IdleCall],
     landed |-> [update |-> 0, set |-> 0, geoadd |-> 0]]

\* UserHandler.PingLocation
PingLocation(u, p, f) ==
    LET r == UserLocationPing(db, kv, geo, u, p.lat, p.lon, f) IN
    /\ db' = r.db
    /\ kv' = r.kv
    /\ geo' = r.geo
    /\ last' = [NoCall EXCEPT !.op = "PingLocation", !.caller = u,
                              !.lat = p.lat, !.lon = p.lon, !.fault = f,
                              !.err = r.err, !.code = WriteError(r.err),
                              !.mod = Modified(r.db, r.kv, r.geo)]
    /\ clock' = IF r.err = nil THEN Renewed(clock, u) ELSE clock
    /\ UNCHANGED <<hash, requested, calls>>

(***************************************************************************)
(* UserLocationPing store call by store call, for runs in flight together: *)
(* between two store calls of one run, calls of another run may land.      *)
(***************************************************************************)
\* The run c is at pc.
At(c, pc) == calls.proc[c].pc = pc

\* The checks, and the first GetUser ("Validate user existence").
PingStart(c, u, p) ==
    LET exists == GetUser(db, kv, u) IN
    /\ At(c, "idle")
    /\ u # ""
    /\ ~InvalidCoordinates(p.lat, p.lon)
    /\ exists.err = nil
    /\ kv' = exists.kv
    /\ calls' = [calls EXCEPT !.proc[c] = [IdleCall EXCEPT !.pc = "update", !.userID = u,
                                                          !.lat = p.lat, !.lon = p.lon]]
    /\ UNCHANGED <<db, hash, geo, last, requested, clock>>

\* collection.UpdateOne
PingUpdateOne(c) ==
    LET run == calls.proc[c] IN
    /\ At(c, "update")
    /\ db' = SetLastLocation(db, run.userID, run.lon, run.lat)
    /\ calls' = [calls EXCEPT !.proc[c].pc = "read", !.landed.update = c]
    /\ UNCHANGED <<kv, hash, geo, last, requested, clock>>

\* The second GetUser, and the new location put into the user it returned.
PingGetUser(c) ==
    LET run == calls.proc[c]
        got == GetUser(db, kv, run.userID)
    IN
    /\ At(c, "read")
    /\ kv' = got.kv
    /\ calls' = [calls EXCEPT !.proc[c].pc = IF got.err = nil THEN "set" ELSE "done",
                              !.proc[c].user = MergeLocation(got.user, run.lon, run.lat)]
    /\ UNCHANGED <<db, hash, geo, last, requested, clock>>

\* redisClient.Set of the user's payload with the 5 minute TTL.
PingSet(c) ==
    LET run == calls.proc[c] IN
    /\ At(c, "set")
    /\ kv' = RedisSet(kv, run.user.PublicID, Marshal(run.user), TTL5m)
    /\ calls' = [calls EXCEPT !.proc[c].pc = "geoadd", !.landed.set = c]
    /\ UNCHANGED <<db, hash, geo, last, requested, clock>>

\* redisClient.GeoAdd and Expire on "users:geo"; the run returns nil.
PingGeoAdd(c) ==
    LET run == calls.proc[c] IN
    /\ At(c, "geoadd")
    /\ geo' = GeoAdd(geo, UsersGeo, run.user.PublicID, run.lon, run.lat)
    /\ clock' = Renewed(clock, run.userID)
    /\ calls' = [calls EXCEPT !.proc[c].pc = "done", !.landed.geoadd = c]
    /\ last' = [NoCall EXCEPT !.op = "PingLocation", !.caller = run.userID,
                              !.lat = run.lat, !.lon = run.lon,
                              !.err = nil, !.code = WriteError(nil)]
    /\ UNCHANGED <<db, kv, hash, requested>>

(***************************************************************************)
(* AcceptFriendRequest store call by store call, for runs in flight        *)
(* together: the FindOne check and the two UpdateOne calls of one run may  *)
(* be separated by calls of another run.                                   *)
(***************************************************************************)
\* The run c returns err.
AcceptReturn(c, u, senderID, err) ==
    /\ calls' = [calls EXCEPT !.proc[c].pc = "done", !.proc[c].userID = u,
                              !.proc[c].other = senderID, !.proc[c].err = err]
    /\ last' = [NoCall EXCEPT !.op = "AcceptFriendRequest", !.caller = u,
                              !.other = senderID, !.err = err,
                              !.code = WriteError(err)]

\* The checks on the ids, the two GetUser calls ("Verify users exist") and
\* the two ObjectIDFromHex conversions.
AcceptStart(c, u, senderID) ==
    LET s == GetUser(db, kv, senderID)
        r == GetUser(db, s.kv, u)
    IN
    /\ At(c, "idle")
    /\ IF u = "" THEN AcceptReturn(c, u, senderID, ErrUnauthorized) /\ UNCHANGED kv
       ELSE IF u = senderID
       THEN /\ AcceptReturn(c, u, senderID, "Cannot accept friend request from self")
            /\ UNCHANGED kv
       ELSE IF s.err # nil
       THEN AcceptReturn(c, u, senderID, "Sender not found") /\ kv' = s.kv
       ELSE IF r.err # nil
       THEN AcceptReturn(c, u, senderID, "User not found") /\ kv' = r.kv
       ELSE IF ~IsObjectIDHex(r.user.ID)
       THEN AcceptReturn(c, u, senderID, "Invalid user ID") /\ kv' = r.kv
       ELSE IF ~IsObjectIDHex(s.user.ID)
       THEN AcceptReturn(c, u, senderID, "Invalid sender ID") /\ kv' = r.kv
       ELSE /\ kv' = r.kv
            /\ calls' = [calls EXCEPT !.proc[c] =
                            [IdleCall EXCEPT !.pc = "find", !.userID = u,
                                             !.other = senderID, !.user = r.user,
                                             !.sender = s.user]]
            /\ UNCHANGED last
    /\ UNCHANGED <<db, hash, geo, requested, clock>>

\* collection.FindOne: "Check if there is a pending friend".
AcceptFindOne(c) ==
    LET run == calls.proc[c] IN
    /\ At(c, "find")
    /\ IF HasPendingRequest(db, run.user.ID, run.other)
       THEN /\ calls' = [calls EXCEPT !.proc[c].pc = "updateUser"]
            /\ UNCHANGED last
       ELSE AcceptReturn(c, run.userID, run.other, "No pending friend request")
    /\ UNCHANGED <<db, kv, hash, geo, requested, clock>>

\* collection.UpdateOne on the accepting user's document.
AcceptUpdateOneUser(c) ==
    LET run == calls.proc[c] IN
    /\ At(c, "updateUser")
    /\ db' = AcceptUpdateUser(db, run.user.ID, run.other)
    /\ calls' = [calls EXCEPT !.proc[c].pc = "updateSender"]
    /\ UNCHANGED <<kv, hash, geo, last, requested, clock>>

\* collection.UpdateOne on the sender's document; the run returns nil.
AcceptUpdateOneSender(c) ==
    LET run == calls.proc[c] IN
    /\ At(c, "updateSender")
    /\ db' = AcceptUpdateSender(db, run.sender.ID, run.userID)
    /\ AcceptReturn(c, run.userID, run.other, nil)
    /\ requested' = requested \ {<<run.other, run.userID>>}
    /\ UNCHANGED <<kv, hash, geo, clock>>

\* The handlers that change the friend graph.
GraphOps == {"SendFriendRequest", "AcceptFriendRequest"}

\* A direct call of UserService.GetUser.
CallGetUser(id) ==
    LET r == GetUser(db, kv, id) IN
    /\ kv' = r.kv
    /\ last' = [NoCall EXCEPT !.op = "GetUser", !.caller = id,
                              !.err = r.err, !.code = WriteError(r.err),
                              !.user = r.user,
                              !.cached = CacheHit(kv, id),
                              !.mod = Modified(db, r.kv, geo),
                              !.after = IF last.op = "PingLocation" /\ last.err = nil
                                           /\ last.caller = id
                                        THEN [NoAfter EXCEPT !.op = last.op,
                                                             !.caller = last.caller,
                                                             !.lat = last.lat,
                                                             !.lon = last.lon]
                                        ELSE IF last.op \in GraphOps /\ last.err = nil
                                                /\ id \in {last.caller, last.other}
                                        THEN [NoAfter EXCEPT !.op = last.op,
                                                             !.caller = last.caller,
                                                             !.other = last.other]
                                        ELSE NoAfter]
    /\ UNCHANGED <<db, hash, geo, requested, calls, clock>>

\* UserHandler.GetNearbyUsers
UserHandler_GetNearbyUsers(u, p, radius, order, bad) ==
    LET rad == EffectiveRadius(radius)
        r == GetNearbyUsers(Readable(db, bad), kv, geo, u, p.lat, p.lon, rad, order)
    IN
    /\ kv' = r.kv
    /\ last' = [NoCall EXCEPT !.op = "GetNearbyUsers", !.caller = u,
                              !.lat = p.lat, !.lon = p.lon,
                              !.radius = radius, !.echo = rad,
                              !.err = r.err, !.code = WriteError(r.err),
                              !.users = r.users,
                              !.lost = {id \in bad : ~CacheHit(kv, id)},
                              !.ref = GetNearbyUsers(db, kv, geo, u, p.lat, p.lon, rad,
                                                     order).users,
                              !.mod = Modified(db, r.kv, geo)]
    /\ UNCHANGED <<db, hash, geo, requested, calls, clock>>

\* UserHandler.GetNearbyFriends
UserHandler_GetNearbyFriends(u, p, radius, order, bad) ==
    LET rad == EffectiveRadius(radius)
        r == GetNearbyFriends(Readable(db, bad \ {u}), kv, geo, u, p.lat, p.lon, rad, order)
    IN
    /\ kv' = r.kv
    /\ last' = [NoCall EXCEPT !.op = "GetNearbyFriends", !.caller = u,
                              !.lat = p.lat, !.lon = p.lon,
                              !.radius = radius, !.echo = rad,
                              !.err = r.err, !.code = WriteError(r.err),
                              !.users = r.users, !.friends = r.friends,
                              !.lost = {id \in bad \ {u} : ~CacheHit(kv, id)},
                              !.ref = GetNearbyFriends(db, kv, geo, u, p.lat, p.lon, rad,
                                                       order).users,
                              !.mod = Modified(db, r.kv, geo)]
    /\ UNCHANGED <<db, hash, geo, requested, calls, clock>>

\* POIHandler.GetNearbyPOIs
POIHandler_GetNearbyPOIs(p, radius, poiType, order, bad) ==
    LET r == FindNearbyPOIs(ReadableHash(hash, bad), geo, p.lat, p.lon, radius, poiType,
                            order)
    IN
    /\ last' = [NoCall EXCEPT !.op = "GetNearbyPOIs",
                              !.lat = p.lat, !.lon = p.lon,
                              !.radius = radius, !.echo = radius, !.ptype = poiType,
                              !.err = r.err, !.code = WriteError(r.err),
                              !.lost = bad,
                              !.ref = FindNearbyPOIs(hash, geo, p.lat, p.lon, radius,
                                                     poiType, order).pois,
                              !.pois = r.pois]
    /\ UNCHANGED <<db, kv, hash, geo, requested, calls, clock>>

\* UserHandler.SendFriendRequest
UserHandler_SendFriendRequest(u, recipientID, f) ==
    LET r == SendFriendRequest(db, kv, u, recipientID, f) IN
    /\ db' = r.db
    /\ kv' = r.kv
    /\ requested' = IF r.err = nil THEN requested \cup {<<u, recipientID>>} ELSE requested
    /\ last' = [NoCall EXCEPT !.op = "SendFriendRequest", !.caller = u,
                              !.other = recipientID, !.fault = f,
                              !.err = r.err, !.code = WriteError(r.err),
                              !.mod = Modified(r.db, r.kv, geo),
                              !.pre = Pre(u, recipientID),
                              !.retry = f = "none" /\ HalfDone("SendFriendRequest", u, recipientID),
                              !.want = IF f = "none" /\ HalfDone("SendFriendRequest", u, recipientID)
                                       THEN last.want
                                       ELSE IF f = "update2" /\ r.err \in SecondUpdateErrors
                                       THEN SendFriendRequest(db, kv, u, recipientID, "none").db
                                       ELSE <<>>,
                              !.after = [NoAfter EXCEPT
                                            !.fresh = /\ u \in DOMAIN db
                                                      /\ recipientID \in DOMAIN db
                                                      /\ u # recipientID
                                                      /\ NoRelation(u, recipientID)]]
    /\ UNCHANGED <<hash, geo, calls, clock>>

\* UserHandler.AcceptFriendRequest
UserHandler_AcceptFriendRequest(u, senderID, f) ==
    LET r == AcceptFriendRequest(db, kv, u, senderID, f) IN
    /\ db' = r.db
    /\ kv' = r.kv
    /\ requested' = IF r.err = nil THEN requested \ {<<senderID, u>>} ELSE requested
    /\ last' = [NoCall EXCEPT !.op = "AcceptFriendRequest", !.caller = u,
                              !.other = senderID, !.fault = f,
                              !.err = r.err, !.code = WriteError(r.err),
                              !.mod = Modified(r.db, r.kv, geo),
                              !.pre = Pre(u, senderID),
                              !.retry = f = "none" /\ HalfDone("AcceptFriendRequest", u, senderID),
                              !.want = IF f = "none" /\ HalfDone("AcceptFriendRequest", u, senderID)
                                       THEN last.want
                                       ELSE IF f = "update2" /\ r.err \in SecondUpdateErrors
                                       THEN AcceptFriendRequest(db, kv, u, senderID, "none").db
                                       ELSE <<>>,
                              !.after = IF last.op = "SendFriendRequest" /\ last.err = nil
                                           /\ last.caller = senderID /\ last.other = u
                                        THEN [NoAfter EXCEPT !.op = last.op,
                                                             !.caller = last.caller,
                                                             !.other = last.other,
                                                             !.fresh = last.after.fresh]
                                        ELSE NoAfter]
    /\ UNCHANGED <<hash, geo, calls, clock>>

\* Redis drops the key "user:<id>" when its TTL runs out.
ExpireUserKey(id) ==
    /\ kv[id].live
    /\ kv' = [kv EXCEPT ![id] = NoEntry]
    /\ last' = [NoCall EXCEPT !.op = "ExpireUserKey", !.caller = id]
    /\ UNCHANGED <<db, hash, geo, requested, calls, clock>>

\* The process is started again: main calls NewGeoService, which runs
\* seedPOIsToRedis on the Redis database the previous process left.
Restart(failed) ==
    LET r == SeedFrom(kv, hash, geo, failed) IN
    /\ kv' = r.kv
    /\ hash' = r.hash
    /\ geo' = r.geo
    /\ last' = [NoCall EXCEPT !.op = "seedPOIsToRedis", !.failed = failed,
                              !.mod = Modified(db, r.kv, r.geo)]
    /\ clock' = IF failed.flush THEN clock ELSE [clock EXCEPT !.geo = 0]
    /\ UNCHANGED <<db, requested, calls>>

\* Redis drops the key "users:geo" when its TTL runs out.
ExpireUsersGeo ==
    /\ geo[UsersGeo] # {}
    /\ geo' = [geo EXCEPT ![UsersGeo] = {}]
    /\ last' = [NoCall EXCEPT !.op = "ExpireUsersGeo"]
    /\ clock' = StoppedClock(DOMAIN db)
    /\ UNCHANGED <<db, kv, hash, requested, calls>>

\* A minute passes.  The key "users:geo" goes when its TTL runs out.
Tick ==
    /\ clock # StoppedClock(DOMAIN db)
    /\ clock' = [geo |-> IF clock.geo > 0 THEN clock.geo - 1 ELSE 0,
                 since |-> [u \in DOMAIN clock.since |->
                              IF clock.since[u] < FiveMinutes
                              THEN clock.since[u] + 1 ELSE FiveMinutes]]
    /\ geo' = IF clock.geo = 1 THEN [geo EXCEPT ![UsersGeo] = {}] ELSE geo
    /\ last' = [NoCall EXCEPT !.op = "Tick"]
    /\ UNCHANGED <<db, kv, hash, requested, calls>>

(***************************************************************************)
(* Spec: presence and proximity of two registered users, who are either    *)
(* strangers or friends (the durable store outlives the process).  Redis   *)
(* is as NewGeoService leaves it (flushed, the POIs seeded); no store call *)
(* fails.                                                                  *)
(***************************************************************************)
Befriended(doc, ids) == [doc EXCEPT !.friends = ids]

PresenceUsers == {"a", "b"}

Init ==
    /\ db \in { [u \in PresenceUsers |-> RegisteredDoc(u)],
                [u \in PresenceUsers |-> Befriended(RegisteredDoc(u), PresenceUsers \ {u})] }
    /\ kv = seedPOIsToRedis.kv
    /\ hash = seedPOIsToRedis.hash
    /\ geo = seedPOIsToRedis.geo
    /\ last = NoCall
    /\ requested = {}
    /\ calls = NoCalls
    /\ clock = StoppedClock(DOMAIN db)

\* The points a proximity query is centred at.
QueryPoints == ValidPoints \cup {[lat |-> 91, lon |-> 0]}

Next ==
    \/ \E u \in DOMAIN db, p \in Points : PingLocation(u, p, "none")
    \/ \E id \in PresenceUsers \cup {Unknown} : CallGetUser(id)
    \/ \E u \in DOMAIN db, p \in QueryPoints, radius \in Radii :
          \E order \in Orders(Names(geo, UsersGeo)) :
             UserHandler_GetNearbyUsers(u, p, radius, order, {})
    \/ \E u \in DOMAIN db, p \in QueryPoints, radius \in Radii :
          \E order \in Orders(Names(geo, UsersGeo)) :
             UserHandler_GetNearbyFriends(u, p, radius, order, {})
    \/ \E id \in PresenceUsers : ExpireUserKey(id)
    \/ ExpireUsersGeo

Spec == Init /\ [][Next]_vars

(***************************************************************************)
(* SpecNearby: proximity queries among three registered users, a a friend  *)
(* of b and of c, b and c strangers.                                       *)
(***************************************************************************)
InitNearby ==
    /\ db = [u \in AllUsers |->
                Befriended(RegisteredDoc(u), IF u = "a" THEN {"b", "c"} ELSE {"a"})]
    /\ kv = seedPOIsToRedis.kv
    /\ hash = seedPOIsToRedis.hash
    /\ geo = seedPOIsToRedis.geo
    /\ last = NoCall
    /\ requested = {}
    /\ calls = NoCalls
    /\ clock = StoppedClock(DOMAIN db)

NextNearby ==
    \/ \E u \in DOMAIN db, p \in ValidPoints : PingLocation(u, p, "none")
    \/ \E u \in DOMAIN db, p \in QueryPoints, radius \in Radii :
          \E order \in Orders(Names(geo, UsersGeo)) :
             UserHandler_GetNearbyUsers(u, p, radius, order, {})
    \/ \E u \in DOMAIN db, p \in QueryPoints, radius \in Radii :
          \E order \in Orders(Names(geo, UsersGeo)) :
             UserHandler_GetNearbyFriends(u, p, radius, order, {})
    \/ \E p \in QueryPoints, radius \in Radii, poiType \in PoiTypes :
          \E order \in Orders(Names(geo, PoisGeo)) :
             POIHandler_GetNearbyPOIs(p, radius, poiType, order, {})

SpecNearby == InitNearby /\ [][NextNearby]_vars

(***************************************************************************)
(* SpecGraph: the friend graph.  Two registered users with no relation.    *)
(***************************************************************************)
GraphUsers == {"a", "b"}

\* The users collection with a and b registered and unrelated.
Registered == [u \in GraphUsers |-> RegisteredDoc(u)]

InitGraph ==
    /\ db = [u \in GraphUsers |-> RegisteredDoc(u)]
    /\ kv = seedPOIsToRedis.kv
    /\ hash = seedPOIsToRedis.hash
    /\ geo = seedPOIsToRedis.geo
    /\ last = NoCall
    /\ requested = {}
    /\ calls = NoCalls
    /\ clock = StoppedClock(DOMAIN db)

NextGraph ==
    \/ \E u \in DOMAIN db, recipientID \in GraphUsers \cup {Unknown} :
          UserHandler_SendFriendRequest(u, recipientID, "none")
    \/ \E u \in DOMAIN db, senderID \in GraphUsers \cup {Unknown} :
          UserHandler_AcceptFriendRequest(u, senderID, "none")
    \/ \E id \in GraphUsers \cup {Unknown} : CallGetUser(id)
    \/ \E id \in GraphUsers : ExpireUserKey(id)

SpecGraph == InitGraph /\ [][NextGraph]_vars

(***************************************************************************)
(* SpecFaults: the friend graph of two registered users when, in each run  *)
(* of a handler, at most one store call fails (a MongoDB update or         *)
(* lookup).  A process that dies before a store call leaves the durable    *)
(* store as the failure of that call does.                                 *)
(***************************************************************************)
FaultUsers == {"a", "b"}
SendFaults == {"none", "update1", "update2"}
AcceptFaults == {"none", "find", "update1", "update2"}

InitFaults ==
    /\ db = [u \in FaultUsers |-> RegisteredDoc(u)]
    /\ kv = seedPOIsToRedis.kv
    /\ hash = seedPOIsToRedis.hash
    /\ geo = seedPOIsToRedis.geo
    /\ last = NoCall
    /\ requested = {}
    /\ calls = NoCalls
    /\ clock = StoppedClock(DOMAIN db)

NextFaults ==
    \/ \E u \in FaultUsers, recipientID \in FaultUsers, f \in SendFaults :
          UserHandler_SendFriendRequest(u, recipientID, f)
    \/ \E u \in FaultUsers, senderID \in FaultUsers, f \in AcceptFaults :
          UserHandler_AcceptFriendRequest(u, senderID, f)

SpecFaults == InitFaults /\ [][NextFaults]_vars

(***************************************************************************)
(* SpecInputs: the handlers on the inputs they reject and on the store     *)
(* calls that fail.  The callers are two registered users and one with no  *)
(* document; locations are one valid and one invalid point; a location     *)
(* update may lose one store call; friend requests go to the caller        *)
(* itself or to nobody known.                                              *)
(***************************************************************************)
Callers == FaultUsers \cup {Unknown}
InputPoints == {[lat |-> 1, lon |-> 0], [lat |-> 91, lon |-> 0]}
PingFaults == {"none", "update1", "set", "geoadd"}

InitInputs ==
    /\ db = [u \in FaultUsers |-> RegisteredDoc(u)]
    /\ kv = seedPOIsToRedis.kv
    /\ hash = seedPOIsToRedis.hash
    /\ geo = seedPOIsToRedis.geo
    /\ last = NoCall
    /\ requested = {}
    /\ calls = NoCalls
    /\ clock = StoppedClock(DOMAIN db)

NextInputs ==
    \/ \E u \in Callers, p \in InputPoints, f \in PingFaults : PingLocation(u, p, f)
    \/ \E u \in Callers, p \in InputPoints, order \in Orders(Names(geo, UsersGeo)) :
          UserHandler_GetNearbyUsers(u, p, DefaultRadius, order, {})
    \/ \E u \in Callers, p \in InputPoints, order \in Orders(Names(geo, UsersGeo)) :
          UserHandler_GetNearbyFriends(u, p, DefaultRadius, order, {})
    \/ \E u \in Callers : \E recipientID \in {u, Unknown} :
          UserHandler_SendFriendRequest(u, recipientID, "none")
    \/ \E u \in Callers : \E senderID \in {u, Unknown} :
          UserHandler_AcceptFriendRequest(u, senderID, "none")

SpecInputs == InitInputs /\ [][NextInputs]_vars

(***************************************************************************)
(* SpecCache: UserService.GetUser on every content of the key "user:<id>": *)
(* absent, the user as MongoDB holds it, the user as a location update     *)
(* cached it (a position MongoDB does not decode), or bytes that are no    *)
(* JSON; for two registered users and two ids without a document.          *)
(***************************************************************************)
CacheUsers == {"a", "b"}

\* What the key of id may hold.
CacheEntries(id) ==
    {NoEntry, [live |-> TRUE, val |-> Garbage, ttl |-> TTL24h]}
    \cup (IF id \in CacheUsers
          THEN {[live |-> TRUE, val |-> Marshal(Decode(RegisteredDoc(id))), ttl |-> TTL24h],
                [live |-> TRUE,
                 val |-> Marshal(MergeLocation(Decode(RegisteredDoc(id)), 0, 1)),
                 ttl |-> TTL5m]}
          ELSE {})

InitCache ==
    /\ db = [u \in CacheUsers |-> RegisteredDoc(u)]
    /\ kv \in {k \in [IDs -> UNION {CacheEntries(id) : id \in IDs}] :
                  \A id \in IDs : k[id] \in CacheEntries(id)}
    /\ hash = seedPOIsToRedis.hash
    /\ geo = seedPOIsToRedis.geo
    /\ last = NoCall
    /\ requested = {}
    /\ calls = NoCalls
    /\ clock = StoppedClock(DOMAIN db)

NextCache ==
    \/ \E id \in IDs : CallGetUser(id)
    \/ \E id \in IDs : ExpireUserKey(id)

SpecCache == InitCache /\ [][NextCache]_vars

(***************************************************************************)
(* SpecFresh: two users who update their location, send and accept friend  *)
(* requests, are read through GetUser (which fills the cache) and ask for   *)
(* their nearby friends.                                                    *)
(***************************************************************************)
NextFresh ==
    \/ \E u \in DOMAIN db, p \in ValidPoints : PingLocation(u, p, "none")
    \/ \E u \in DOMAIN db, recipientID \in GraphUsers :
          UserHandler_SendFriendRequest(u, recipientID, "none")
    \/ \E u \in DOMAIN db, senderID \in GraphUsers :
          UserHandler_AcceptFriendRequest(u, senderID, "none")
    \/ \E id \in GraphUsers : CallGetUser(id)
    \/ \E u \in DOMAIN db, p \in ValidPoints :
          \E order \in Orders(Names(geo, UsersGeo)) :
             UserHandler_GetNearbyFriends(u, p, DefaultRadius, order, {})

SpecFresh == InitGraph /\ [][NextFresh]_vars

(***************************************************************************)
(* SpecSeed: two users who update their location and are read, POI         *)
(* queries, and restarts of the process, whose seeding may fail at any of  *)
(* its store calls.                                                        *)
(***************************************************************************)
SeedFailures ==
    [flush : BOOLEAN, find : BOOLEAN,
     hset : SUBSET {"p1"}, geoadd : SUBSET {"p2"}]

NextSeed ==
    \/ \E u \in DOMAIN db, p \in ValidPoints : PingLocation(u, p, "none")
    \/ \E id \in GraphUsers : CallGetUser(id)
    \/ \E p \in ValidPoints, poiType \in PoiTypes :
          \E order \in Orders(Names(geo, PoisGeo)) :
             POIHandler_GetNearbyPOIs(p, 111000, poiType, order, {})
    \/ \E failed \in SeedFailures : Restart(failed)

SpecSeed == InitGraph /\ [][NextSeed]_vars

(***************************************************************************)
(* SpecHits: proximity queries among the three users of SpecNearby during  *)
(* which the payload of some hits cannot be read: MongoDB fails on some    *)
(* users (their cached payload, if live, is still read), Redis fails on    *)
(* the hash of some POIs.                                                  *)
(***************************************************************************)
HitPoint == [lat |-> 0, lon |-> 0]

\* The users MongoDB fails on, and the POI hashes Redis fails on, in a query.
BadUsers == {{}, {"b"}, {"a", "c"}}
BadPOIs == {{}, {"p1"}}

NextHits ==
    \/ \E u \in DOMAIN db : PingLocation(u, HitPoint, "none")
    \/ \E id \in AllUsers : ExpireUserKey(id)
    \/ \E u \in DOMAIN db, bad \in BadUsers :
          \E order \in Orders(Names(geo, UsersGeo)) :
             UserHandler_GetNearbyUsers(u, HitPoint, DefaultRadius, order, bad \ {u})
    \/ \E u \in DOMAIN db, bad \in BadUsers :
          \E order \in Orders(Names(geo, UsersGeo)) :
             UserHandler_GetNearbyFriends(u, HitPoint, DefaultRadius, order, bad \ {u})
    \/ \E poiType \in PoiTypes, bad \in BadPOIs :
          \E order \in Orders(Names(geo, PoisGeo)) :
             POIHandler_GetNearbyPOIs(HitPoint, 111000, poiType, order, bad)

SpecHits == InitNearby /\ [][NextHits]_vars

(***************************************************************************)
(* SpecCrowd: proximity queries by a and b when more users than the POI    *)
(* query's Count are indexed at one point.  Every user of the crowd is a   *)
(* friend of a and a stranger to b, and has just updated its location.     *)
(***************************************************************************)
CrowdSize == 51

Crowd == {"u" \o ToString(i) : i \in 1..CrowdSize}

Askers == {"a", "b"}

\* One order in which the store may reply the members S.
RECURSIVE StoreOrder(_)
StoreOrder(S) ==
    IF S = {} THEN <<>>
    ELSE LET x == CHOOSE y \in S : TRUE IN <<x>> \o StoreOrder(S \ {x})

InitCrowd ==
    /\ db = [u \in Crowd \cup Askers |->
                IF u = "a" THEN Befriended(RegisteredDoc(u), Crowd)
                ELSE IF u \in Crowd
                THEN [Befriended(RegisteredDoc(u), {"a"}) EXCEPT
                         !.lastLocation = GeoPoint(HitPoint.lon, HitPoint.lat)]
                ELSE RegisteredDoc(u)]
    /\ kv = [u \in Crowd \cup Askers |->
                IF u \in Crowd
                THEN [live |-> TRUE,
                      val |-> Marshal(MergeLocation(Decode(db[u]), HitPoint.lon,
                                                    HitPoint.lat)),
                      ttl |-> TTL5m]
                ELSE NoEntry]
    /\ hash = seedPOIsToRedis.hash
    /\ geo = [seedPOIsToRedis.geo EXCEPT
                 ![UsersGeo] = {[Name |-> u, Longitude |-> HitPoint.lon,
                                 Latitude |-> HitPoint.lat] : u \in Crowd}]
    /\ last = NoCall
    /\ requested = {}
    /\ calls = NoCalls
    /\ clock = [geo |-> FiveMinutes,
                since |-> [u \in Crowd \cup Askers |-> IF u \in Crowd THEN 0 ELSE FiveMinutes]]

NextCrowd ==
    \/ \E u \in Askers, p \in ValidPoints : PingLocation(u, p, "none")
    \/ \E id \in Askers : ExpireUserKey(id)
    \/ \E u \in Askers, p \in ValidPoints :
          UserHandler_GetNearbyUsers(u, p, DefaultRadius,
                                     StoreOrder(Names(geo, UsersGeo)), {})
    \/ \E u \in Askers, p \in ValidPoints :
          UserHandler_GetNearbyFriends(u, p, DefaultRadius,
                                       StoreOrder(Names(geo, UsersGeo)), {})
    \/ \E p \in ValidPoints, poiType \in PoiTypes :
          POIHandler_GetNearbyPOIs(p, 111000, poiType,
                                   StoreOrder(Names(geo, PoisGeo)), {})

SpecCrowd == InitCrowd /\ [][NextCrowd]_vars

(***************************************************************************)
(* SpecTerminal: every operation that writes: location updates, friend     *)
(* requests sent and accepted (the second durable update of an accept may  *)
(* fail), and restarts of the process with their seeding.                  *)
(***************************************************************************)
NextTerminal ==
    \/ \E u \in DOMAIN db : PingLocation(u, HitPoint, "none")
    \/ \E u \in DOMAIN db, recipientID \in GraphUsers :
          UserHandler_SendFriendRequest(u, recipientID, "none")
    \/ \E u \in DOMAIN db, senderID \in GraphUsers, f \in {"none", "update2"} :
          UserHandler_AcceptFriendRequest(u, senderID, f)
    \/ Restart(NoFailure)

SpecTerminal == InitGraph /\ [][NextTerminal]_vars

(***************************************************************************)
(* SpecClock: the two users of Spec with time counted in minutes: location *)
(* updates, proximity queries and the passing of a minute.  The keys       *)
(* "user:<id>" expire by ExpireUserKey.                                    *)
(***************************************************************************)
NextClock ==
    \/ \E u \in DOMAIN db : PingLocation(u, HitPoint, "none")
    \/ Tick
    \/ \E id \in PresenceUsers : ExpireUserKey(id)
    \/ \E u \in DOMAIN db :
          \E order \in Orders(Names(geo, UsersGeo)) :
             UserHandler_GetNearbyUsers(u, HitPoint, DefaultRadius, order, {})
    \/ \E u \in DOMAIN db :
          \E order \in Orders(Names(geo, UsersGeo)) :
             UserHandler_GetNearbyFriends(u, HitPoint, DefaultRadius, order, {})

SpecClock == Init /\ [][NextClock]_vars

(***************************************************************************)
(* SpecConcurrent: two runs of UserLocationPing in flight together, each   *)
(* for user a or b at one of the two valid points, no store call failing.  *)
(***************************************************************************)
NextConcurrent ==
    \/ \E c \in PingCalls, u \in GraphUsers, p \in ValidPoints : PingStart(c, u, p)
    \/ \E c \in PingCalls : PingUpdateOne(c)
    \/ \E c \in PingCalls : PingGetUser(c)
    \/ \E c \in PingCalls : PingSet(c)
    \/ \E c \in PingCalls : PingGeoAdd(c)

SpecConcurrent == InitGraph /\ [][NextConcurrent]_vars

(***************************************************************************)
(* SpecAccepts: user a has sent b a friend request; two runs of            *)
(* AcceptFriendRequest are in flight together, each by a or b for a, b or  *)
(* an unknown sender, no store call failing; cached payloads may expire.   *)
(***************************************************************************)
\* The store after SendFriendRequest by a to b on the registered users.
Requested == SendFriendRequest(Registered, seedPOIsToRedis.kv, "a", "b", "none")

InitAccepts ==
    /\ db = Requested.db
    /\ kv = Requested.kv
    /\ hash = seedPOIsToRedis.hash
    /\ geo = seedPOIsToRedis.geo
    /\ last = NoCall
    /\ requested = {<<"a", "b">>}
    /\ calls = NoCalls
    /\ clock = StoppedClock(DOMAIN db)

NextAccepts ==
    \/ \E c \in PingCalls, u \in GraphUsers, senderID \in GraphUsers \cup {Unknown} :
          AcceptStart(c, u, senderID)
    \/ \E c \in PingCalls : AcceptFindOne(c)
    \/ \E c \in PingCalls : AcceptUpdateOneUser(c)
    \/ \E c \in PingCalls : AcceptUpdateOneSender(c)
    \/ \E id \in GraphUsers : ExpireUserKey(id)

SpecAccepts == InitAccepts /\ [][NextAccepts]_vars

(***************************************************************************)
(* The properties.                                                         *)
(***************************************************************************)
\* The distance in meters between an indexed location and a query centre.
DistMeters(lon1, lat1, lon2, lat2) == 1000 * DistKm(lon1, lat1, lon2, lat2)

NearbyOps == {"GetNearbyUsers", "GetNearbyFriends"}

\* C1: a successful location update of user U to (lat, lon), followed at once
\* by GetUser(U), returns U with LastLocation [lon, lat].
C1_UpdateThenGetReturnsNewPosition ==
    (last.op = "GetUser" /\ last.after.op = "PingLocation")
        => /\ last.err = nil
           /\ last.user.PublicID = last.caller
           /\ last.user.LastLocation = GeoPoint(last.after.lon, last.after.lat)

\* A GetUser right after a successful update to a point other than the
\* registered [0, 0].
C1_Witness ==
    /\ last.op = "GetUser"
    /\ last.after.op = "PingLocation"
    /\ last.after.lat = 1

\* C2: a location update with lat outside [-90, 90] or lon outside [-180, 180]
\* fails with the INVALID_INPUT kind and changes neither the durable store,
\* nor the cached payloads, nor the users geospatial set.
C2_InvalidUpdateIsInvalidInput ==
    (last.op = "PingLocation" /\ InvalidCoordinates(last.lat, last.lon))
        => /\ last.code = ErrInvalidInput
           /\ last.mod = {}

\* The part of C2 the code keeps: the update fails and touches no store.
C2_InvalidUpdateTouchesNothing ==
    (last.op = "PingLocation" /\ InvalidCoordinates(last.lat, last.lon))
        => /\ last.err # nil
           /\ last.mod = {}

\* C3: from no relation between A and B, a successful request A -> B followed
\* by a successful accept by B leaves A in friends(B), B in friends(A), A out
\* of B's pending requests and B out of A's sent requests.
C3_SendThenAcceptMakesFriends ==
    (/\ last.op = "AcceptFriendRequest"
     /\ last.err = nil
     /\ last.after.op = "SendFriendRequest"
     /\ last.after.fresh)
        => LET B == last.caller
               A == last.other
           IN /\ A \in db[B].friends
              /\ B \in db[A].friends
              /\ A \notin db[B].pending_friend_requests
              /\ B \notin db[A].pending_friend_requests_sent

C3_Witness ==
    /\ last.op = "AcceptFriendRequest"
    /\ last.err = nil
    /\ last.after.op = "SendFriendRequest"
    /\ last.after.fresh

\* C4: an accept by B of A succeeds only if A is in B's durable pending
\* requests; otherwise it fails with the NOT_FOUND kind and leaves the
\* durable store as it was.
C4_AcceptNeedsPendingElseNotFound ==
    (last.op = "AcceptFriendRequest" /\ last.caller # last.other)
        => /\ last.err = nil => last.pre.pendingIn
           /\ ~last.pre.pendingIn => (last.code = ErrNotFound /\ "db" \notin last.mod)

\* The part of C4 the code keeps: without a pending request the accept fails
\* and the durable store is untouched.
C4_AcceptNeedsPending ==
    (last.op = "AcceptFriendRequest" /\ last.caller # last.other)
        => /\ last.err = nil => last.pre.pendingIn
           /\ ~last.pre.pendingIn => (last.err # nil /\ "db" \notin last.mod)

\* C5: a request A -> B made while an earlier request A -> B is unaccepted, or
\* while A and B are friends, fails with the CONFLICT kind and leaves the
\* durable store as it was.
C5_RepeatedRequestConflicts ==
    (last.op = "SendFriendRequest" /\ (last.pre.requested \/ last.pre.friends))
        => /\ last.code = ErrConflict
           /\ "db" \notin last.mod

\* C6: while a request A -> B is unaccepted, a request B -> A is rejected and
\* leaves the durable store as it was.
C6_ReverseRequestRejected ==
    (last.op = "SendFriendRequest" /\ last.pre.reverse)
        => /\ last.err # nil
           /\ "db" \notin last.mod

\* C7: every entry GetNearbyFriends returns to caller A carries the public id
\* of a member of A's durable friends list.
C7_NearbyFriendsAreFriends ==
    (last.op = "GetNearbyFriends" /\ last.caller \in DOMAIN db)
        => \A i \in 1..Len(last.users) : last.users[i].UserID \in db[last.caller].friends

\* GetNearbyFriends returned a friend while a user who is no friend of the
\* caller is indexed within the queried radius.
C7_Witness ==
    /\ last.op = "GetNearbyFriends"
    /\ last.err = nil
    /\ Len(last.users) > 0
    /\ \E m \in geo[UsersGeo] :
          /\ m.Name # last.caller
          /\ m.Name \notin db[last.caller].friends
          /\ DistKm(m.Longitude, m.Latitude, last.lon, last.lat) <= last.echo

\* C8: neither GetNearbyUsers nor GetNearbyFriends returns an entry with the
\* caller's own public id.
C8_CallerNotInOwnResult ==
    last.op \in NearbyOps
        => \A i \in 1..Len(last.users) : last.users[i].UserID # last.caller

\* GetNearbyUsers returned somebody while the caller is indexed at the very
\* centre of the query.
C8_Witness ==
    /\ last.op = "GetNearbyUsers"
    /\ Len(last.users) > 0
    /\ \E m \in geo[UsersGeo] :
          /\ m.Name = last.caller
          /\ m.Longitude = last.lon
          /\ m.Latitude = last.lat

\* C9: a proximity query with radius R meters returns nothing farther than R
\* meters from the centre, and returns what is indexed at exactly R meters.
C9_ResultsWithinRadius ==
    /\ (last.op \in NearbyOps /\ last.err = nil)
          => /\ \A i \in 1..Len(last.users) :
                   DistMeters(last.users[i].Lon, last.users[i].Lat, last.lon, last.lat)
                      <= last.echo
             /\ \A m \in geo[UsersGeo] :
                   (/\ m.Name # last.caller
                    /\ last.op = "GetNearbyFriends" => m.Name \in db[last.caller].friends
                    /\ DistMeters(m.Longitude, m.Latitude, last.lon, last.lat) = last.echo)
                      => \E i \in 1..Len(last.users) : last.users[i].UserID = m.Name
    /\ (last.op = "GetNearbyPOIs" /\ last.err = nil)
          => /\ \A i \in 1..Len(last.pois) :
                   DistMeters(last.pois[i].Location.Coordinates[1],
                              last.pois[i].Location.Coordinates[2], last.lon, last.lat)
                      <= last.echo
             /\ \A m \in geo[PoisGeo] :
                   (/\ last.ptype # "" => poisCollection[m.Name].Type = last.ptype
                    /\ DistMeters(m.Longitude, m.Latitude, last.lon, last.lat) = last.echo)
                      => \E i \in 1..Len(last.pois) : last.pois[i].ID = m.Name

\* C10: the list a proximity query returns is in non-decreasing order of
\* distance from the centre.
C10_ResultsOrderedByDistance ==
    /\ last.op \in NearbyOps
          => \A i, j \in 1..Len(last.users) :
                i < j => DistMeters(last.users[i].Lon, last.users[i].Lat, last.lon, last.lat)
                           <= DistMeters(last.users[j].Lon, last.users[j].Lat, last.lon, last.lat)
    /\ last.op = "GetNearbyPOIs"
          => \A i, j \in 1..Len(last.pois) :
                i < j => DistMeters(last.pois[i].Location.Coordinates[1],
                                    last.pois[i].Location.Coordinates[2], last.lon, last.lat)
                           <= DistMeters(last.pois[j].Location.Coordinates[1],
                                         last.pois[j].Location.Coordinates[2], last.lon, last.lat)

\* The friends lists of the durable store mirror each other.
FriendsSymmetric ==
    \A A, B \in DOMAIN db : A \in db[B].friends <=> B \in db[A].friends

\* The pending lists of the durable store mirror each other.
PendingSymmetric ==
    \A A, B \in DOMAIN db :
        B \in db[A].pending_friend_requests <=> A \in db[B].pending_friend_requests_sent

\* C11: in every reachable state of the durable store, A is in friends(B) if
\* and only if B is in friends(A), also after an accept that failed or died
\* between its two updates.
C11_FriendshipSymmetric == FriendsSymmetric

\* C12: in every reachable state two friends have each other in no pending
\* list, and no request is pending in both directions between two users.
C12_OneRelationPerPair ==
    \A A, B \in DOMAIN db :
        /\ A \in db[B].friends
              => /\ A \notin db[B].pending_friend_requests
                                \cup db[B].pending_friend_requests_sent
                 /\ B \notin db[A].pending_friend_requests
                                \cup db[A].pending_friend_requests_sent
        /\ ~(A \in db[B].pending_friend_requests /\ B \in db[A].pending_friend_requests)

\* C13: after any sequence of completed friend-request and accept calls,
\* successful or failed, B is in the pending requests of A if and only if A
\* is in the sent requests of B.
C13_PendingBookkeepingSymmetric == PendingSymmetric

\* C14: no user has its own public id in its friends, pending or sent list,
\* and a friend request to oneself and an accept of oneself fail with the
\* INVALID_INPUT kind without touching a store.
C14_NoSelfLoops ==
    /\ \A A \in DOMAIN db :
          A \notin db[A].friends \cup db[A].pending_friend_requests
                      \cup db[A].pending_friend_requests_sent
    /\ (last.op \in {"SendFriendRequest", "AcceptFriendRequest"}
        /\ last.caller = last.other)
          => /\ last.code = ErrInvalidInput
             /\ last.mod = {}

\* The part of C14 the code keeps: no self-loop is ever stored, and a call
\* naming the caller itself fails without touching a store.
C14_NoSelfLoopStored ==
    /\ \A A \in DOMAIN db :
          A \notin db[A].friends \cup db[A].pending_friend_requests
                      \cup db[A].pending_friend_requests_sent
    /\ (last.op \in {"SendFriendRequest", "AcceptFriendRequest"}
        /\ last.caller = last.other)
          => /\ last.err # nil
             /\ last.mod = {}

\* C15: in every reachable state every member of users:geo and of pois:geo
\* has a live payload under the key of its name, also after the expiry of a
\* key.
C15_GeoMembersHavePayload ==
    /\ \A m \in geo[UsersGeo] : kv[m.Name].live
    /\ \A m \in geo[PoisGeo] : hash[m.Name].live

\* The entries of a result list, as a set.
Entries(list) == {list[i] : i \in 1..Len(list)}

\* What the service returns to the latest nearby call when asked again, in
\* the state that call left, with an explicit radius.
NearbyAgain(radius, order) ==
    IF last.op = "GetNearbyUsers"
    THEN GetNearbyUsers(db, kv, geo, last.caller, last.lat, last.lon, radius, order)
    ELSE LET r == GetNearbyFriends(db, kv, geo, last.caller, last.lat, last.lon,
                                   radius, order)
         IN [err |-> r.err, users |-> r.users, kv |-> r.kv]

\* C16: GetNearbyUsers and GetNearbyFriends called with a radius <= 0 echo a
\* radius of 3000 and return exactly the entries an explicit radius of 3000
\* returns.
C16_NonPositiveRadiusIsDefault ==
    (last.op \in NearbyOps /\ last.radius <= 0)
        => /\ last.echo = DefaultRadius
           /\ \A order \in Orders(Names(geo, UsersGeo)) :
                 /\ NearbyAgain(DefaultRadius, order).err = last.err
                 /\ Entries(NearbyAgain(DefaultRadius, order).users) = Entries(last.users)

\* A nearby call with radius 0 that returned somebody.
C16_Witness ==
    /\ last.op \in NearbyOps
    /\ last.radius <= 0
    /\ last.err = nil
    /\ Len(last.users) > 0

\* C17: GetNearbyPOIs called with a radius <= 0 fails with the INVALID_INPUT
\* kind and returns nothing from the geospatial set.
C17_NonPositivePoiRadiusRejected ==
    (last.op = "GetNearbyPOIs" /\ last.radius <= 0)
        => /\ last.code = ErrInvalidInput
           /\ last.pois = <<>>

\* A latitude outside [-90, 90] or a longitude outside [-180, 180].
OutOfRange(lat, lon) == lat \notin -90..90 \/ lon \notin -180..180

\* C18: a call that fails input validation (coordinates out of range in
\* PingLocation, GetNearbyUsers, GetNearbyFriends; the caller named as the
\* other party in SendFriendRequest, AcceptFriendRequest) returns the
\* validation error and leaves every store as it was, whoever the caller is
\* and whichever store call was about to fail: no store call was reached.
C18_ValidationBeforeStores ==
    /\ (last.op = "PingLocation" /\ OutOfRange(last.lat, last.lon))
          => /\ last.err = "invalid coordinates"
             /\ last.mod = {}
    /\ (last.op \in NearbyOps /\ OutOfRange(last.lat, last.lon))
          => /\ last.err = ErrInvalidInput
             /\ last.users = <<>>
             /\ last.mod = {}
    /\ (last.op = "SendFriendRequest" /\ last.caller = last.other)
          => /\ last.err = ErrInvalidInput
             /\ last.mod = {}
    /\ (last.op = "AcceptFriendRequest" /\ last.caller = last.other)
          => /\ last.err = "Cannot accept friend request from self"
             /\ last.mod = {}

\* An update with latitude 91 by a caller who has no document, in a run
\* where the first store update would have failed.
C18_Witness ==
    /\ last.op = "PingLocation"
    /\ last.caller = Unknown
    /\ OutOfRange(last.lat, last.lon)
    /\ last.fault = "update1"

\* C19: a location update whose durable write succeeded and whose cache
\* write (the payload SET or the GEOADD) then failed reports success, and
\* the durable store holds the new position.
C19_CacheFailureStillSucceeds ==
    (/\ last.op = "PingLocation"
     /\ last.fault \in {"set", "geoadd"}
     /\ last.caller \in DOMAIN db
     /\ ~OutOfRange(last.lat, last.lon))
        => /\ last.err = nil
           /\ db[last.caller].lastLocation = GeoPoint(last.lon, last.lat)

\* The part of C19 the code keeps: the durable write stays.
C19_DurableWriteStays ==
    (/\ last.op = "PingLocation"
     /\ last.fault \in {"set", "geoadd"}
     /\ last.caller \in DOMAIN db
     /\ ~OutOfRange(last.lat, last.lon))
        => db[last.caller].lastLocation = GeoPoint(last.lon, last.lat)

\* C20: when the second durable update of a friend request A -> B fails, the
\* call reports failure and A stays in the pending requests of B; when the
\* second durable update of an accept by B of A fails, the call reports
\* failure, A stays in friends(B) and out of the pending requests of B.
C20_NoRollback ==
    /\ (/\ last.op = "SendFriendRequest"
        /\ last.fault = "update2"
        /\ last.caller # last.other)
          => /\ last.err # nil
             /\ last.code # "OK"
             /\ last.caller \in db[last.other].pending_friend_requests
    /\ (/\ last.op = "AcceptFriendRequest"
        /\ last.fault = "update2"
        /\ last.caller # last.other
        /\ last.pre.pendingIn)
          => /\ last.err # nil
             /\ last.code # "OK"
             /\ last.other \in db[last.caller].friends
             /\ last.other \notin db[last.caller].pending_friend_requests

\* An accept of a pending request whose second update failed.
C20_Witness ==
    /\ last.op = "AcceptFriendRequest"
    /\ last.fault = "update2"
    /\ last.caller # last.other
    /\ last.pre.pendingIn

\* C21: a friend request or an accept that failed after its first durable
\* update and is repeated at once, with no further failure, succeeds and
\* leaves the durable store as one uninterrupted run would have left it.
C21_RetryCompletes ==
    last.retry
        => /\ last.err = nil
           /\ db = last.want

\* The part of C21 the code keeps: the repeated friend request completes.
C21_SendRetryCompletes ==
    (last.retry /\ last.op = "SendFriendRequest")
        => /\ last.err = nil
           /\ db = last.want

C22_WitnessUndecodable ==
    /\ last.op = "GetUser"
    /\ ~last.cached
    /\ last.mod = {"kv"}
    /\ last.err = nil

\* C23: a GetUser that directly follows a successful state-changing call on
\* that user reflects the change: the new position after a location update,
\* the pending request on both sides after a send, the friendship on both
\* sides after an accept.
C23_WritesRefreshCache ==
    (last.op = "GetUser" /\ last.after.op # "none")
        => LET id == last.caller
               by == last.after.caller
               other == last.after.other
           IN
           /\ last.err = nil
           /\ last.after.op = "PingLocation"
                 => last.user.LastLocation = GeoPoint(last.after.lon, last.after.lat)
           /\ last.after.op = "SendFriendRequest"
                 => /\ id = by => other \in last.user.PendingFriendRequestsSent
                    /\ id = other => by \in last.user.PendingFriendRequests
           /\ last.after.op = "AcceptFriendRequest"
                 => /\ id = by => other \in last.user.Friends
                    /\ id = other => by \in last.user.Friends

\* C24: GetNearbyFriends returns to caller A exactly the indexed users within
\* the radius, other than A, that A's document in the durable store lists as
\* friends at the time of the call, whatever the cached payloads hold.
C24_FriendsReadFromDurableStore ==
    (last.op = "GetNearbyFriends" /\ last.err = nil)
        => /\ last.friends = db[last.caller].friends
           /\ {u.UserID : u \in Entries(last.users)}
                 = {m.Name : m \in {n \in geo[UsersGeo] :
                                      /\ n.Name # last.caller
                                      /\ n.Name \in db[last.caller].friends
                                      /\ DistKm(n.Longitude, n.Latitude, last.lon, last.lat)
                                            <= last.echo}}

\* After an accept, GetNearbyFriends returned the new friend although the
\* caller's cached payload is live and lists no friends.
C24_Witness ==
    /\ last.op = "GetNearbyFriends"
    /\ last.err = nil
    /\ Len(last.users) > 0
    /\ kv[last.caller].live
    /\ Unmarshal(kv[last.caller].val).Friends = {}

\* C26: a run of seedPOIsToRedis whose FlushDB succeeds leaves no user
\* payload and no member of the users geo set; every POI whose HSet and GeoAdd
\* succeed has its payload and is a member of the POI geo set at its durable
\* coordinates; a POI whose HSet fails has neither payload nor geo member;
\* nothing else is in the POI geo set.
C26_ReseedFlushesThenSeeds ==
    (last.op = "seedPOIsToRedis" /\ ~last.failed.flush)
        => LET written == IF last.failed.find THEN {}
                          ELSE DOMAIN poisCollection \ last.failed.hset
               indexed == written \ last.failed.geoadd
           IN
           /\ \A id \in IDs : ~kv[id].live
           /\ geo[UsersGeo] = {}
           /\ \A p \in DOMAIN poisCollection :
                 /\ p \in written
                       => hash[p] = [live |-> TRUE, data |-> MarshalPOI(poisCollection[p])]
                 /\ p \notin written => ~hash[p].live
           /\ geo[PoisGeo]
                 = {[Name |-> p,
                     Longitude |-> poisCollection[p].Location.Coordinates[1],
                     Latitude |-> poisCollection[p].Location.Coordinates[2]] : p \in indexed}

\* A restart that removed user keys, seeded at least one POI and failed to
\* write the payload of another.
C26_Witness ==
    /\ last.op = "seedPOIsToRedis"
    /\ ~last.failed.flush /\ ~last.failed.find
    /\ "kv" \in last.mod
    /\ last.failed.hset # {}
    /\ geo[PoisGeo] # {}

\* C27: a proximity query during which the payload of some hits cannot be
\* read still succeeds, and returns exactly the entries the same query
\* returns when every payload can be read, less the entries of those hits.
C27_UnresolvableHitSkipped ==
    /\ last.op \in NearbyOps
          => /\ last.err = nil
             /\ Entries(last.users) = {e \in Entries(last.ref) : e.UserID \notin last.lost}
    /\ last.op = "GetNearbyPOIs"
          => /\ last.err = nil
             /\ Entries(last.pois) = {e \in Entries(last.ref) : e.ID \notin last.lost}

\* A query of nearby users that lost one hit and returned another.
C27_Witness ==
    /\ last.op = "GetNearbyUsers"
    /\ last.err = nil
    /\ Len(last.users) > 0
    /\ \E e \in Entries(last.ref) : e.UserID \in last.lost

\* A query of nearby POIs that lost one hit and returned another.
C27_WitnessPOI ==
    /\ last.op = "GetNearbyPOIs"
    /\ last.err = nil
    /\ Len(last.pois) > 0
    /\ \E e \in Entries(last.ref) : e.ID \in last.lost

\* C28: no proximity query (nearby POIs, nearby users, nearby friends)
\* returns more entries than the POI query's Count, 50.
C28_AtMostFiftyResults ==
    /\ last.op \in NearbyOps => Len(last.users) <= PoiCount
    /\ last.op = "GetNearbyPOIs" => Len(last.pois) <= PoiCount

\* The part of C28 the code keeps: a query of nearby POIs returns at most 50.
C28_AtMostFiftyPOIs == last.op = "GetNearbyPOIs" => Len(last.pois) <= PoiCount

\* C30: no step removes a user from another user's durable friends list:
\* whoever is in friends(B) before a location update, a friend request, an
\* accept or a reseed is in friends(B) after it.
C30_FriendsTerminal ==
    [][\A A, B \in DOMAIN db : A \in db[B].friends => A \in db'[B].friends]_vars

\* Two friends, one of whom has just sent the other a friend request again,
\* which the durable store took.
C30_Witness ==
    /\ last.op = "SendFriendRequest"
    /\ last.err = nil
    /\ last.caller \in db[last.other].friends
    /\ last.other \in db[last.caller].friends
    /\ "db" \in last.mod

\* Two friends after a restart that flushed Redis and seeded it again.
C30_WitnessReseed ==
    /\ last.op = "seedPOIsToRedis"
    /\ ~last.failed.flush
    /\ "kv" \in last.mod
    /\ \E A, B \in DOMAIN db : A \in db[B].friends

\* C29: a user whose last successful location update is five minutes old or
\* older is no member of the users geo set and is in no result of
\* GetNearbyUsers or GetNearbyFriends, whatever other users did meanwhile.
C29_PresenceExpiresPerUser ==
    \A u \in DOMAIN db :
        clock.since[u] >= FiveMinutes
            => /\ u \notin Names(geo, UsersGeo)
               /\ last.op \in NearbyOps
                     => \A e \in Entries(last.users) : e.UserID # u

\* The part of C29 the code keeps: five minutes after the last successful
\* location update of any user the users geo set is empty.
C29_PresenceExpiresTogether ==
    (\A u \in DOMAIN db : clock.since[u] >= FiveMinutes) => geo[UsersGeo] = {}

\* Both runs of UserLocationPing have returned and were for the same user.
BothDoneForOneUser ==
    /\ \A c \in PingCalls : At(c, "done")
    /\ calls.proc[1].userID = calls.proc[2].userID

\* The position the run c was called with.
CalledWith(c) == GeoPoint(calls.proc[c].lon, calls.proc[c].lat)

\* C25 as stated: after two runs of UserLocationPing for one user, in flight
\* together, have both returned, the cached payload and the users geo set
\* both hold the position of the run whose cache write landed last (the last
\* cache write of a run is its GeoAdd).
C25_OneRunWinsTheCache ==
    BothDoneForOneUser
        => LET u == calls.proc[1].userID IN
           /\ Unmarshal(kv[u].val).LastLocation = CalledWith(calls.landed.geoadd)
           /\ \A m \in geo[UsersGeo] :
                 m.Name = u
                    => GeoPoint(m.Longitude, m.Latitude) = CalledWith(calls.landed.geoadd)

\* C25, store by store: after two runs of UserLocationPing for one user, in
\* flight together, have both returned, the cached payload holds the
\* position of the run whose Set landed last, the users geo set the
\* coordinates of the run whose GeoAdd landed last, and the durable store
\* the position of the run whose UpdateOne landed last.
C25_LastWriteWins ==
    BothDoneForOneUser
        => LET u == calls.proc[1].userID IN
           /\ kv[u].live
           /\ Unmarshal(kv[u].val).LastLocation = CalledWith(calls.landed.set)
           /\ \E m \in geo[UsersGeo] :
                 /\ m.Name = u
                 /\ GeoPoint(m.Longitude, m.Latitude) = CalledWith(calls.landed.geoadd)
           /\ db[u].lastLocation = CalledWith(calls.landed.update)

\* Both runs have returned, and the cached payload and the users geo set
\* hold a position other than the one the durable store holds.
C25_Witness ==
    /\ BothDoneForOneUser
    /\ LET u == calls.proc[1].userID IN
       /\ Unmarshal(kv[u].val).LastLocation # db[u].lastLocation
       /\ \E m \in geo[UsersGeo] :
             /\ m.Name = u
             /\ GeoPoint(m.Longitude, m.Latitude) # db[u].lastLocation

\* C31: SendFriendRequest by A to B succeeds only when, in the durable store
\* at the time of the call, A's public id is neither in B's friends nor in
\* B's pending requests.
C31_SendDecidesOnDurableSets ==
    (last.op = "SendFriendRequest" /\ last.err = nil) => ~last.pre.listed

\* Both runs are AcceptFriendRequest by b for sender a and have returned.
BothAcceptsReturned ==
    \A c \in PingCalls :
        /\ At(c, "done")
        /\ calls.proc[c].userID = "b"
        /\ calls.proc[c].other = "a"

\* The users collection after one AcceptFriendRequest by b for sender a on
\* the store that holds a's request.
AcceptedOnce == AcceptFriendRequest(Requested.db, Requested.kv, "b", "a", "none").db

\* C32: when two runs of AcceptFriendRequest by b for the request of a have
\* both returned, whatever the order in which their FindOne check and their
\* two UpdateOne calls landed, the users collection is the one a single
\* accept leaves: a and b are in each other's friends (friends are kept with
\* $addToSet, so once each), a is out of b's pending requests and b is out of
\* a's sent requests.
C32_TwoAcceptsAsOne ==
    BothAcceptsReturned =>
        /\ db = AcceptedOnce
        /\ db["a"].friends = {"b"}
        /\ db["b"].friends = {"a"}
        /\ db["b"].pending_friend_requests = {}
        /\ db["a"].pending_friend_requests_sent = {}

\* C32: both runs passed the FindOne check before either update landed, applied
\* both updates and returned nil.
C32_Witness ==
    /\ BothAcceptsReturned
    /\ \A c \in PingCalls : calls.proc[c].err = nil

\* C32: one run returned nil and the other, whose check came after the first
\* update, found no pending request.
C32_WitnessRefused ==
    /\ BothAcceptsReturned
    /\ \E c \in PingCalls : calls.proc[c].err = nil
    /\ \E c \in PingCalls : calls.proc[c].err = "No pending friend request"

====
